---------------------------- MODULE Spec2Model ----------------------------
(***************************************************************************)
(* A model of the analysis backend (backend/main.py, backend/models.py):   *)
(* the submit endpoint create_analysis, the background task run_analysis,  *)
(* AnalysisAgent.analyze_code with its per-file loop, the three heuristic  *)
(* analyzers, CodeAnalysisTool.parse_code, and the SQLAlchemy session      *)
(* (pending objects, commit, rollback on a failed commit) they write to.   *)
(*                                                                         *)
(* A Python string is modelled by the set of marker words it contains,     *)
(* with their case; s.lower() lower-cases each word, and "x in s" is       *)
(* membership.  A storage call (db.add, db.query, db.commit) either        *)
(* succeeds or raises with an error text chosen by the environment.        *)
(***************************************************************************)
EXTENDS Integers, Sequences, FiniteSets, TLC

(***************************************************************************)
(* Bounds of the model.                                                    *)
(***************************************************************************)
MaxFiles == 2

JobIds == {"job1", "job2"}

(***************************************************************************)
(* Program constants.                                                      *)
(***************************************************************************)
LargeFileLines == 100
CreatedProgress == 0
ResponseProgress == 10
\* a faulty variant: the first progress update stores a value below the response's
StartedProgressBelowResponse == ResponseProgress - 5
StartedProgress == 25
CompletedProgress == 100

NULL == "NULL"
UtcNow == "utcnow"

(***************************************************************************)
(* Strings as sets of marker words.                                        *)
(***************************************************************************)
LowerWord(w) ==
    CASE w = "SQL" -> "sql"
      [] w = "Session" -> "session"
      [] w = "Log4J" -> "log4j"
      [] w = "Spring" -> "spring"
      [] OTHER -> w

Lower(s) == {LowerWord(w) : w \in s}

LowerExt(ext) ==
    CASE ext = ".JAVA" -> ".java"
      [] ext = ".PY" -> ".py"
      [] ext = ".Js" -> ".js"
      [] OTHER -> ext

(***************************************************************************)
(* CodeAnalysisTool                                                        *)
(***************************************************************************)
language_map ==
    [e \in {".java", ".js", ".jsx", ".ts", ".tsx", ".py", ".cs",
            ".cobol", ".cbl", ".cob"} |->
        CASE e = ".java" -> "java"
          [] e \in {".js", ".jsx", ".ts", ".tsx"} -> "javascript"
          [] e = ".py" -> "python"
          [] e = ".cs" -> "csharp"
          [] OTHER -> "cobol"]

\* a faulty variant: an extension missing from the map is taken for java
detect_language_default_java(filename) ==
    LET extension == LowerExt(filename.ext)
    IN  IF extension \in DOMAIN language_map THEN language_map[extension]
        ELSE "java"

\* Path(filename).suffix.lower(), then language_map.get(extension, 'unknown')
detect_language(filename) ==
    LET extension == LowerExt(filename.ext)
    IN  IF extension \in DOMAIN language_map THEN language_map[extension]
        ELSE "unknown"

\* only the java and python branches exist; other languages extract nothing
extract_functions(tree, language) ==
    IF language \in {"java", "python"} THEN tree.functions ELSE <<>>

extract_classes(tree, language) ==
    IF language \in {"java", "python"} THEN tree.classes ELSE <<>>

extract_imports(tree, language) ==
    IF language \in {"java", "python"} THEN tree.imports ELSE <<>>

\* 1 + the number of decision nodes anywhere in the tree
calculate_complexity(tree) == 1 + tree.decisions

\* len(content.split('\n')): one more part than the content has newlines, so
\* the empty content counts one line
SplitLines(content) == content.newlines + 1

\* content = [newlines, tree, error]: the number of newline characters, the
\* syntax tree the grammar yields, and the exception the parser raises: <<>>
\* when it raises none, else <<text>>.  In the result, error = <<>> stands for
\* the absent 'error' key.
parse_code(filename, content) ==
    LET language == detect_language(filename)
    IN  IF language = "unknown"
        THEN [language |-> "unknown", functions |-> <<>>, classes |-> <<>>,
              imports |-> <<>>, complexity |-> 0,
              lines_of_code |-> SplitLines(content), error |-> <<>>]
        ELSE IF content.error = <<>>
        THEN [language |-> language,
              functions |-> extract_functions(content.tree, language),
              classes |-> extract_classes(content.tree, language),
              imports |-> extract_imports(content.tree, language),
              complexity |-> calculate_complexity(content.tree),
              lines_of_code |-> SplitLines(content), error |-> <<>>]
        ELSE [language |-> language, functions |-> <<>>, classes |-> <<>>,
              imports |-> <<>>, complexity |-> 0,
              lines_of_code |-> SplitLines(content), error |-> content.error]

\* the marker words of str(code_info).lower()
StrLower(code_info) ==
    Lower(UNION ({code_info.functions[i] : i \in DOMAIN code_info.functions}
             \cup {code_info.classes[i] : i \in DOMAIN code_info.classes}
             \cup {code_info.imports[i] : i \in DOMAIN code_info.imports}
             \cup {code_info.error[i] : i \in DOMAIN code_info.error}))

(***************************************************************************)
(* The three heuristic analyzers                                           *)
(***************************************************************************)
When(cond, item) == IF cond THEN <<item>> ELSE <<>>

scan_code_for_issues(code_info) ==
    LET text == StrLower(code_info)
        findings ==
            When("sql" \in text, "Potential SQL injection vulnerability detected")
            \o When("for" \in text /\ "database" \in text, "Possible N+1 query problem")
            \o When(code_info.lines_of_code > LargeFileLines,
                    "Large file size may affect maintainability")
    IN  [findings |-> findings,
         severity |-> IF findings # <<>> THEN "medium" ELSE "low",
         recommendations |-> <<"Review database queries",
                               "Consider refactoring large files">>]

IsOutdated(import_stmt) == "spring" \in Lower(import_stmt) /\ "1.5" \in Lower(import_stmt)

IsVulnerable(import_stmt) == "log4j" \in Lower(import_stmt)

analyze_dependencies(code_info) ==
    LET imports == code_info.imports
        outdated == SelectSeq(imports, IsOutdated)
        vulnerable == SelectSeq(imports, IsVulnerable)
    IN  [outdated_dependencies |->
             [i \in 1..Len(outdated) |-> "Spring Boot 1.5 (deprecated)"],
         vulnerable_dependencies |->
             [i \in 1..Len(vulnerable) |-> "Log4j (security vulnerability)"],
         recommendations |-> <<"Upgrade Spring Boot to 3.x",
                               "Replace Log4j with Logback">>]

analyze_cloud_readiness(code_info) ==
    LET text == StrLower(code_info)
        stateful == "session" \in text
        hardcoded == "localhost" \in text \/ "127.0.0.1" \in text
        cloud_issues ==
            When(stateful, "Stateful session management detected")
            \o When(hardcoded, "Hardcoded local configurations found")
    IN  [cloud_readiness_score |-> IF cloud_issues = <<>> THEN 75 ELSE 50,
         issues |-> cloud_issues,
         recommendations |->
            When(stateful, "Consider external session storage for scalability")
            \o When(hardcoded, "Use environment variables for configuration"),
         suggested_patterns |-> <<"12-Factor App", "Microservices", "Containerization">>]

(***************************************************************************)
(* The environment: uploads, per-file faults, exception texts               *)
(***************************************************************************)
JavaContent ==
    [newlines |-> 119,
     tree |-> [functions |-> <<>>, classes |-> <<{"SQL"}>>,
               imports |-> <<{"Spring", "1.5"}, {"Log4J"}>>, decisions |-> 2],
     error |-> <<>>]

PythonContent ==
    [newlines |-> 4,
     tree |-> [functions |-> <<{"Session"}, {"for", "database"}>>, classes |-> <<>>,
               imports |-> <<{"localhost"}>>, decisions |-> 0],
     error |-> <<>>]

PlainContent ==
    [newlines |-> 4,
     tree |-> [functions |-> <<>>, classes |-> <<>>, imports |-> <<>>, decisions |-> 0],
     error |-> <<>>]

\* the empty string
EmptyContent ==
    [newlines |-> 0,
     tree |-> [functions |-> <<>>, classes |-> <<>>, imports |-> <<>>, decisions |-> 0],
     error |-> <<>>]

\* a script whose import statements name the known-bad libraries
ScriptContent ==
    [newlines |-> 2,
     tree |-> [functions |-> <<>>, classes |-> <<>>,
               imports |-> <<{"Spring", "1.5"}, {"Log4J"}>>, decisions |-> 0],
     error |-> <<>>]

\* a long source on which the parser raises; the exception text mentions SQL
BrokenContent ==
    [newlines |-> 149,
     tree |-> [functions |-> <<>>, classes |-> <<>>, imports |-> <<>>, decisions |-> 0],
     error |-> <<{"SQL"}>>]

\* what a client may upload: decodable = FALSE when content.decode('utf-8') raises
Uploads ==
    { [filename |-> [stem |-> "Main", ext |-> ".JAVA"], content |-> JavaContent,
       decodable |-> TRUE],
      [filename |-> [stem |-> "app", ext |-> ".py"], content |-> PythonContent,
       decodable |-> TRUE],
      [filename |-> [stem |-> "notes", ext |-> ".xyz"], content |-> PlainContent,
       decodable |-> TRUE],
      [filename |-> [stem |-> "README", ext |-> ""], content |-> EmptyContent,
       decodable |-> TRUE],
      [filename |-> [stem |-> "index", ext |-> ".Js"], content |-> ScriptContent,
       decodable |-> TRUE],
      [filename |-> [stem |-> "Legacy", ext |-> ".cs"], content |-> BrokenContent,
       decodable |-> TRUE],
      [filename |-> [stem |-> "blob", ext |-> ".bin"], content |-> PlainContent,
       decodable |-> FALSE] }

UploadLists == UNION {[1..n -> Uploads] : n \in 0..MaxFiles}

\* str(e) of the exceptions a storage call may raise
ErrTexts == {"", "connection lost"}

Min(a, b) == IF a < b THEN a ELSE b
Max(a, b) == IF a < b THEN b ELSE a

(***************************************************************************)
(* State                                                                   *)
(***************************************************************************)
VARIABLES
    analyses,             \* table analyses: id -> committed row
    analysis_files,       \* table analysis_files: committed rows, in insertion order
    findings,             \* table findings
    recommendations,      \* table recommendations
    dependencies,         \* table dependencies
    session,              \* per request: the Session's uncommitted changes
    pc,                   \* where each job's handler / background task stands
    processed_files,      \* the files list handed to run_analysis
    pos,                  \* position of analyze_code's loop in the files list
    all_findings,         \* analyze_code's local accumulators
    all_recommendations,
    all_dependencies,
    results,              \* analyze_code's return value: <<>> or <<summary>>
    exc,                  \* str(e) of the exception run_analysis caught
    response,             \* the AnalysisResponse create_analysis returned
    progressLog,          \* history: the progress values made observable, in order
    faultLog,             \* history: what was raised while each file was processed
    fatalLog              \* history: storage calls of run_analysis that raised

vars == <<analyses, analysis_files, findings, recommendations, dependencies,
          session, pc, processed_files, pos, all_findings, all_recommendations,
          all_dependencies, results, exc, response, progressLog, faultLog, fatalLog>>

dbVars == <<analyses, analysis_files, findings, recommendations, dependencies>>
accVars == <<all_findings, all_recommendations, all_dependencies>>

\* Session(autocommit=False, autoflush=False): attribute changes of the job's
\* Analysis object, objects passed to db.add, and AnalysisFile rows changed
EmptySession ==
    [dirty |-> <<>>, new_findings |-> <<>>, new_recommendations |-> <<>>,
     new_dependencies |-> <<>>, marked |-> {}]

Init ==
    /\ analyses = <<>>
    /\ analysis_files = <<>>
    /\ findings = <<>>
    /\ recommendations = <<>>
    /\ dependencies = <<>>
    /\ session = [j \in JobIds |-> EmptySession]
    /\ pc = [j \in JobIds |-> "idle"]
    /\ processed_files = [j \in JobIds |-> <<>>]
    /\ pos = [j \in JobIds |-> 1]
    /\ all_findings = [j \in JobIds |-> <<>>]
    /\ all_recommendations = [j \in JobIds |-> <<>>]
    /\ all_dependencies = [j \in JobIds |-> <<>>]
    /\ results = [j \in JobIds |-> <<>>]
    /\ exc = [j \in JobIds |-> ""]
    /\ response = [j \in JobIds |-> <<>>]
    /\ progressLog = [j \in JobIds |-> <<>>]
    /\ faultLog = [j \in JobIds |-> <<>>]
    /\ fatalLog = [j \in JobIds |-> <<>>]

(***************************************************************************)
(* The storage collaborator: db.commit()                                   *)
(***************************************************************************)
\* a row with the attribute changes of the in-memory object written to it
Flushed(row, dirty) ==
    [a \in DOMAIN row |-> IF a \in DOMAIN dirty THEN dirty[a] ELSE row[a]]

\* analysis.<a> = v
Assigned(dirty, a, v) ==
    [b \in DOMAIN dirty \cup {a} |-> IF b = a THEN v ELSE dirty[b]]

\* db.commit() succeeding: the session's changes reach the tables
CommitOk(j, s) ==
    /\ analyses' = [analyses EXCEPT ![j] = Flushed(@, s.dirty)]
    /\ findings' = findings \o s.new_findings
    /\ recommendations' = recommendations \o s.new_recommendations
    /\ dependencies' = dependencies \o s.new_dependencies
    /\ analysis_files' =
          [r \in DOMAIN analysis_files |->
              IF r \in s.marked
              THEN [analysis_files[r] EXCEPT !.upload_status = "processed",
                                             !.processed_at = UtcNow]
              ELSE analysis_files[r]]
    /\ session' = [session EXCEPT ![j] = EmptySession]

\* a faulty variant: a commit that raises after its changes reached the tables
CommitRaisesAfterWriting(j, s) == CommitOk(j, s)

\* db.commit() raising with the changes s pending: the transaction is rolled
\* back and the session's objects are expired, so the tables keep their rows
\* and the changes are lost
CommitRaises(j, s) ==
    /\ UNCHANGED dbVars
    /\ session' = [session EXCEPT ![j] = EmptySession]

\* the history of progress values: a commit that writes the progress column
\* makes the written value observable
ProgressWritten(j, s) ==
    progressLog' = [progressLog EXCEPT ![j] =
        IF "progress" \in DOMAIN s.dirty THEN Append(@, analyses'[j].progress) ELSE @]

(***************************************************************************)
(* create_analysis: POST /api/analyze                                      *)
(***************************************************************************)
NewAnalysis ==
    [status |-> "processing", progress |-> CreatedProgress,
     completed_at |-> NULL, error_message |-> NULL]

\* the files whose read and decode did not raise, in upload order
Decoded(uploads) ==
    LET ok == SelectSeq(uploads, LAMBDA u : u.decodable)
    IN  [i \in 1..Len(ok) |-> [filename |-> ok[i].filename, content |-> ok[i].content]]

FileRows(j, files) ==
    [i \in 1..Len(files) |->
        [analysis_id |-> j, filename |-> files[i].filename,
         upload_status |-> "uploaded", processed_at |-> NULL]]

CreateAnalysis(j, lists) ==
    /\ pc[j] = "idle"
    /\ \E uploads \in lists,
          outcome \in {"ok", "first commit raises", "second commit raises"} :
         IF outcome = "first commit raises"
         THEN \* nothing is recorded and the request fails
              /\ pc' = [pc EXCEPT ![j] = "rejected"]
              /\ UNCHANGED <<dbVars, processed_files, response, progressLog>>
         ELSE /\ analyses' = analyses @@ (j :> NewAnalysis)
              /\ IF outcome = "ok"
                 THEN \* file rows committed, task scheduled, response returned
                      /\ analysis_files' =
                             analysis_files \o FileRows(j, Decoded(uploads))
                      /\ processed_files' =
                             [processed_files EXCEPT ![j] = Decoded(uploads)]
                      /\ response' = [response EXCEPT ![j] =
                             <<[status |-> "processing",
                                progress |-> ResponseProgress]>>]
                      /\ pc' = [pc EXCEPT ![j] = "scheduled"]
                 ELSE \* the job row stays, no task is ever scheduled
                      /\ pc' = [pc EXCEPT ![j] = "rejected"]
                      /\ UNCHANGED <<analysis_files, processed_files, response>>
              /\ progressLog' = [progressLog EXCEPT ![j] =
                     <<analyses'[j].progress>> \o
                     (IF outcome = "ok" THEN <<response'[j][1].progress>> ELSE <<>>)]
    /\ UNCHANGED <<findings, recommendations, dependencies, session, pos,
                   accVars, results, exc, faultLog, fatalLog>>

(***************************************************************************)
(* run_analysis, first step: the progress update                           *)
(*                                                                         *)
(* Rows of table analyses are never deleted, so each db.query(Analysis)    *)
(* of run_analysis that returns finds the row create_analysis committed.   *)
(***************************************************************************)
\* a storage call of run_analysis raised: control moves to the except clause
Caught(j, where, e) ==
    /\ pc' = [pc EXCEPT ![j] = "except"]
    /\ exc' = [exc EXCEPT ![j] = e]
    /\ fatalLog' = [fatalLog EXCEPT ![j] = Append(@, where)]

\* analysis.progress = 25
ProgressChanges(s) == [s EXCEPT !.dirty = Assigned(@, "progress", StartedProgress)]

UpdateProgress(j, texts) ==
    /\ pc[j] = "scheduled"
    /\ \E outcome \in {"ok", "query raises", "commit raises"}, e \in texts :
         CASE outcome = "ok" ->
                /\ CommitOk(j, ProgressChanges(session[j]))
                /\ ProgressWritten(j, ProgressChanges(session[j]))
                /\ pc' = [pc EXCEPT ![j] = "files"]
                /\ UNCHANGED <<exc, fatalLog>>
           [] outcome = "query raises" ->
                /\ Caught(j, "progress query", e)
                /\ UNCHANGED <<dbVars, session, progressLog>>
           [] outcome = "commit raises" ->
                /\ Caught(j, "progress commit", e)
                /\ CommitRaises(j, ProgressChanges(session[j]))
                /\ UNCHANGED progressLog
    /\ UNCHANGED <<processed_files, pos, accVars, results, response, faultLog>>

(***************************************************************************)
(* AnalysisAgent.analyze_code: one iteration of the per-file loop          *)
(***************************************************************************)
FindingObjects(j, file, scanner_results) ==
    [i \in 1..Len(scanner_results.findings) |->
        [analysis_id |-> j, finding_type |-> "security",
         severity |-> scanner_results.severity,
         title |-> scanner_results.findings[i],
         location |-> file.filename, confidence |-> 80]]

FindingSummaries(file, scanner_results) ==
    [i \in 1..Len(scanner_results.findings) |->
        [type |-> "security", severity |-> scanner_results.severity,
         title |-> scanner_results.findings[i], file |-> file.filename]]

RecommendationObjects(j, scanner_results) ==
    [i \in 1..Len(scanner_results.recommendations) |->
        [analysis_id |-> j, recommendation_type |-> "code_quality",
         priority |-> "high", title |-> scanner_results.recommendations[i],
         estimated_effort |-> "1-2 weeks"]]

RecommendationSummaries(file, scanner_results) ==
    [i \in 1..Len(scanner_results.recommendations) |->
        [type |-> "code_quality", priority |-> "high",
         title |-> scanner_results.recommendations[i], file |-> file.filename]]

DependencyObjects(j, dependency_results) ==
    [i \in 1..Len(dependency_results.outdated_dependencies) |->
        [analysis_id |-> j, name |-> dependency_results.outdated_dependencies[i],
         type |-> "library", status |-> "outdated", severity |-> "medium",
         migration_complexity |-> "moderate"]]

\* a faulty variant: the query filtered by filename only
FirstFileRowOfAnyJob(j, filename) ==
    LET matching == {r \in DOMAIN analysis_files :
                        analysis_files[r].filename = filename}
    IN  {r \in matching : \A q \in matching : r <= q}

\* db.query(AnalysisFile).filter(analysis_id, filename).first(): the set holding
\* the first matching row's index, empty when no row matches
FirstFileRow(j, filename) ==
    LET matching == {r \in DOMAIN analysis_files :
                        /\ analysis_files[r].analysis_id = j
                        /\ analysis_files[r].filename = filename}
    IN  {r \in matching : \A q \in matching : r <= q}

\* the storage calls of one iteration, in order: one db.add per finding, per
\* scanner recommendation and per outdated dependency, then the db.query
StorageCalls(file) ==
    LET code_analysis == parse_code(file.filename, file.content)
    IN  Len(scan_code_for_issues(code_analysis).findings)
        + Len(scan_code_for_issues(code_analysis).recommendations)
        + Len(analyze_dependencies(code_analysis).outdated_dependencies)
        + 1

\* what may be raised inside the try block of one iteration: nothing, one of
\* the analyzers, the call-th db.add, or the db.query
Faults(file) ==
    {[at |-> a, call |-> 0] : a \in {"none", "scanner", "dependency", "cloud", "query"}}
    \cup {[at |-> "add", call |-> k] : k \in 1..(StorageCalls(file) - 1)}

FaultKinds == {"none", "scanner", "dependency", "cloud", "add", "query"}

\* a faulty variant: the per-file except clause lets the exception escape to run_analysis
AfterFileErrorRaise == "except"
\* except Exception: print(...); continue
AfterFileError == "files"

AnalyzeFile(j, kinds, texts) ==
    /\ pc[j] = "files"
    /\ pos[j] <= Len(processed_files[j])
    /\ LET file == processed_files[j][pos[j]]
           code_analysis == parse_code(file.filename, file.content)
           scanner_results == scan_code_for_issues(code_analysis)
           dependency_results == analyze_dependencies(code_analysis)
           cloud_results == analyze_cloud_readiness(code_analysis)
           F == FindingObjects(j, file, scanner_results)
           R == RecommendationObjects(j, scanner_results)
           D == DependencyObjects(j, dependency_results)
       IN  \E fault \in {f \in Faults(file) : f.at \in kinds}, e \in texts \cup {""} :
             LET \* the storage calls that return before anything is raised
                 calls == CASE fault.at = "none" -> StorageCalls(file)
                            [] fault.at = "add" -> fault.call - 1
                            [] fault.at = "query" -> StorageCalls(file) - 1
                            [] OTHER -> 0
                 nF == Min(calls, Len(F))
                 nR == Min(Max(calls - Len(F), 0), Len(R))
                 nD == Min(Max(calls - Len(F) - Len(R), 0), Len(D))
                 queried == calls = StorageCalls(file)
             IN  /\ fault.at = "none" => e = ""
                 /\ session' = [session EXCEPT ![j] =
                        [@ EXCEPT
                           !.new_findings = @ \o SubSeq(F, 1, nF),
                           !.new_recommendations = @ \o SubSeq(R, 1, nR),
                           !.new_dependencies = @ \o SubSeq(D, 1, nD),
                           !.marked = IF queried
                                      THEN @ \cup FirstFileRow(j, file.filename)
                                      ELSE @]]
                 /\ all_findings' = [all_findings EXCEPT ![j] =
                        @ \o SubSeq(FindingSummaries(file, scanner_results), 1, nF)]
                 /\ all_recommendations' = [all_recommendations EXCEPT ![j] =
                        @ \o SubSeq(RecommendationSummaries(file, scanner_results), 1, nR)]
                 /\ all_dependencies' = [all_dependencies EXCEPT ![j] =
                        @ \o SubSeq(dependency_results.outdated_dependencies, 1, nD)]
                 /\ faultLog' = [faultLog EXCEPT ![j] = Append(@, fault)]
                 /\ pos' = [pos EXCEPT ![j] = @ + 1]
                 /\ IF fault.at = "none" \/ AfterFileError = "files"
                    THEN UNCHANGED <<pc, exc>>
                    ELSE /\ pc' = [pc EXCEPT ![j] = AfterFileError]
                         /\ exc' = [exc EXCEPT ![j] = e]
    /\ UNCHANGED <<dbVars, processed_files, results, response, progressLog, fatalLog>>

(***************************************************************************)
(* AnalysisAgent.analyze_code: after the loop                              *)
(***************************************************************************)
FilesAnalyzed(files, log) == Len(files)

Summary(j) ==
    [findings |-> all_findings[j],
     recommendations |-> all_recommendations[j],
     dependencies |-> all_dependencies[j],
     files_analyzed |-> FilesAnalyzed(processed_files[j], faultLog[j])]

CommitResults(j, texts) ==
    /\ pc[j] = "files"
    /\ pos[j] > Len(processed_files[j])
    /\ \E outcome \in {"ok", "commit raises"}, e \in texts :
         IF outcome = "ok"
         THEN /\ CommitOk(j, session[j])
              /\ ProgressWritten(j, session[j])
              /\ results' = [results EXCEPT ![j] = <<Summary(j)>>]
              /\ pc' = [pc EXCEPT ![j] = "complete"]
              /\ UNCHANGED <<exc, fatalLog>>
         ELSE /\ CommitRaises(j, session[j])
              /\ Caught(j, "results commit", e)
              /\ UNCHANGED <<results, progressLog>>
    /\ UNCHANGED <<processed_files, pos, accVars, response, faultLog>>

(***************************************************************************)
(* run_analysis: recording completion, and the except clause               *)
(***************************************************************************)
\* analysis.status = "completed"; analysis.progress = 100;
\* analysis.completed_at = datetime.utcnow()
\* a faulty variant: completion recorded without the progress assignment
CompletedChangesWithoutProgress(s) ==
    [s EXCEPT !.dirty =
        Assigned(Assigned(@, "status", "completed"), "completed_at", UtcNow)]

CompletedChanges(s) ==
    [s EXCEPT !.dirty =
        Assigned(Assigned(Assigned(@, "status", "completed"),
                          "progress", CompletedProgress),
                 "completed_at", UtcNow)]

\* analysis.status = "failed"; analysis.error_message = str(e)
FailedChanges(s, e) ==
    [s EXCEPT !.dirty = Assigned(Assigned(@, "status", "failed"), "error_message", e)]

Complete(j, texts) ==
    /\ pc[j] = "complete"
    /\ \E outcome \in {"ok", "query raises", "commit raises"}, e \in texts :
         CASE outcome = "ok" ->
                /\ CommitOk(j, CompletedChanges(session[j]))
                /\ ProgressWritten(j, CompletedChanges(session[j]))
                /\ pc' = [pc EXCEPT ![j] = "done"]
                /\ UNCHANGED <<exc, fatalLog>>
           [] outcome = "query raises" ->
                /\ Caught(j, "completion query", e)
                /\ UNCHANGED <<dbVars, session, progressLog>>
           [] outcome = "commit raises" ->
                /\ Caught(j, "completion commit", e)
                /\ CommitRaises(j, CompletedChanges(session[j]))
                /\ UNCHANGED progressLog
    /\ UNCHANGED <<processed_files, pos, accVars, results, response, faultLog>>

\* An exception raised inside the except clause is handled nowhere: it ends
\* the task ("crashed") and the job's row keeps what was committed before.
Except(j) ==
    /\ pc[j] = "except"
    /\ \E outcome \in {"ok", "query raises", "commit raises"} :
         CASE outcome = "ok" ->
                /\ CommitOk(j, FailedChanges(session[j], exc[j]))
                /\ ProgressWritten(j, FailedChanges(session[j], exc[j]))
                /\ pc' = [pc EXCEPT ![j] = "done"]
                /\ UNCHANGED fatalLog
           [] outcome = "query raises" ->
                /\ pc' = [pc EXCEPT ![j] = "crashed"]
                /\ fatalLog' = [fatalLog EXCEPT ![j] = Append(@, "handler query")]
                /\ UNCHANGED <<dbVars, session, progressLog>>
           [] outcome = "commit raises" ->
                /\ pc' = [pc EXCEPT ![j] = "crashed"]
                /\ fatalLog' = [fatalLog EXCEPT ![j] = Append(@, "handler commit")]
                /\ CommitRaises(j, FailedChanges(session[j], exc[j]))
                /\ UNCHANGED progressLog
    /\ UNCHANGED <<processed_files, pos, accVars, results, exc, response, faultLog>>

(***************************************************************************)
(* Specifications                                                          *)
(***************************************************************************)
\* the steps of the background task asyncio.create_task scheduled for job j
Task(j) ==
    \/ UpdateProgress(j, ErrTexts)
    \/ AnalyzeFile(j, FaultKinds, ErrTexts)
    \/ CommitResults(j, ErrTexts)
    \/ Complete(j, ErrTexts)
    \/ Except(j)

\* the jobs submitted in the runs of Spec
Submitted == {"job1"}

Next ==
    \E j \in Submitted :
        \/ CreateAnalysis(j, UploadLists)
        \/ UpdateProgress(j, ErrTexts)
        \/ AnalyzeFile(j, FaultKinds, ErrTexts)
        \/ CommitResults(j, ErrTexts)
        \/ Complete(j, ErrTexts)
        \/ Except(j)

Spec == Init /\ [][Next]_vars

\* the event loop runs every task it was handed until the task returns or raises
FairSpec == Spec /\ \A j \in Submitted : WF_vars(Task(j))

\* Two jobs submitted concurrently, their requests and tasks interleaved at
\* every storage call, each with one of a few projects and, per file, no
\* exception, the cloud-readiness analyzer raising or the db.query raising,
\* and one exception text.
ConcUploadLists ==
    {list \in [1..2 -> {u \in Uploads : u.filename.ext \in {".JAVA", ".py"}}] :
        list[1].filename.ext = ".JAVA"}
    \cup {<<>>}

ConcFaultKinds == {"none", "cloud", "query"}

ConcErrTexts == {"connection lost"}

ConcNext ==
    \E j \in JobIds :
        \/ CreateAnalysis(j, ConcUploadLists)
        \/ UpdateProgress(j, ConcErrTexts)
        \/ AnalyzeFile(j, ConcFaultKinds, ConcErrTexts)
        \/ CommitResults(j, ConcErrTexts)
        \/ Complete(j, ConcErrTexts)
        \/ Except(j)

ConcSpec == Init /\ [][ConcNext]_vars

(***************************************************************************)
(* Vocabulary of the properties                                            *)
(***************************************************************************)
Recorded == DOMAIN analyses

\* the rows of a table that belong to job j
JobRows(table, j) == SelectSeq(table, LAMBDA r : r.analysis_id = j)

\* the background task of job j has returned or has ended with an exception
TaskEnded(j) == pc[j] \in {"done", "crashed"}

\* the files of job j the loop has visited
Visited(j) == DOMAIN faultLog[j]

\* nothing was raised while file i of job j was processed
Unfaulted(j, i) == faultLog[j][i].at = "none"

FileAt(j, i) == processed_files[j][i]

ScannerOutput(j, i) ==
    scan_code_for_issues(parse_code(FileAt(j, i).filename, FileAt(j, i).content))

DependencyOutput(j, i) ==
    analyze_dependencies(parse_code(FileAt(j, i).filename, FileAt(j, i).content))

CloudOutput(j, i) ==
    analyze_cloud_readiness(parse_code(FileAt(j, i).filename, FileAt(j, i).content))

\* every finding the scanner emitted for file i of job j is a row of table findings
ScannerFindingsPersisted(j, i) ==
    LET expected == FindingObjects(j, FileAt(j, i), ScannerOutput(j, i))
    IN  \A k \in DOMAIN expected :
            \E r \in DOMAIN findings : findings[r] = expected[k]

\* every title of the sequence is the title of a recommendation row of job j
TitlesPersisted(j, titles) ==
    \A k \in DOMAIN titles :
        \E r \in DOMAIN recommendations :
            /\ recommendations[r].analysis_id = j
            /\ recommendations[r].title = titles[k]

NonDecreasing(seq) == \A i \in 1..(Len(seq) - 1) : seq[i] <= seq[i + 1]

(***************************************************************************)
(* C1.  The progress values of a job made observable over its life (the    *)
(* value stored at creation, the value of the submit response, and every   *)
(* value run_analysis stores afterwards) form a non-decreasing sequence,   *)
(* and the stored progress is one of them.                                 *)
(***************************************************************************)
C1_ProgressNonDecreasing ==
    \A j \in Recorded :
        /\ NonDecreasing(progressLog[j])
        /\ \E i \in DOMAIN progressLog[j] : progressLog[j][i] = analyses[j].progress

\* a job that went through creation, response, the progress update and completion
C1_Witness ==
    \E j \in Recorded :
        /\ analyses[j].status = "completed"
        /\ progressLog[j] = <<0, 10, 25, 100>>

(***************************************************************************)
(* C2.  A job whose status is failed has progress strictly below 100 and   *)
(* a non-empty error message, whichever step raised and whatever the text  *)
(* of the exception.                                                       *)
(***************************************************************************)
C2_FailedBelow100WithMessage ==
    \A j \in Recorded :
        analyses[j].status = "failed" =>
            /\ analyses[j].progress < 100
            /\ analyses[j].error_message \notin {NULL, ""}

(***************************************************************************)
(* C3.  When no storage call of run_analysis itself raises, files whose    *)
(* processing raised inside the loop are only skipped: every file of the   *)
(* list is visited, the scanner findings of the files that did not raise   *)
(* are persisted, and the job ends completed with progress 100 and a       *)
(* completion timestamp.                                                   *)
(***************************************************************************)
C3_FileErrorsOnlySkipFiles ==
    \A j \in Recorded :
        (TaskEnded(j) /\ fatalLog[j] = <<>>) =>
            /\ Visited(j) = DOMAIN processed_files[j]
            /\ \A i \in Visited(j) : Unfaulted(j, i) => ScannerFindingsPersisted(j, i)
            /\ analyses[j].status = "completed"
            /\ analyses[j].progress = 100
            /\ analyses[j].completed_at # NULL

\* a completed job whose first file raised and whose second file's findings
\* were persisted
C3_Witness ==
    \E j \in Recorded :
        /\ TaskEnded(j)
        /\ analyses[j].status = "completed"
        /\ Len(faultLog[j]) = 2
        /\ ~Unfaulted(j, 1)
        /\ Unfaulted(j, 2)
        /\ ScannerOutput(j, 2).findings # <<>>
        /\ ScannerFindingsPersisted(j, 2)

(***************************************************************************)
(* C4.  files_analyzed of the summary analyze_code returns equals the      *)
(* number of files whose processing finished without raising.              *)
(***************************************************************************)
C4_FilesAnalyzedCountsSuccesses ==
    \A j \in JobIds :
        results[j] # <<>> =>
            results[j][1].files_analyzed =
                Cardinality({i \in Visited(j) : Unfaulted(j, i)})

(***************************************************************************)
(* C5.  Every job that was recorded and whose task was scheduled           *)
(* eventually reaches status completed or failed, also when storage calls  *)
(* raise in run_analysis or in its except clause.                          *)
(***************************************************************************)
C5_ScheduledJobEventuallyTerminal ==
    \A j \in JobIds :
        (pc[j] = "scheduled") ~>
            (j \in Recorded /\ analyses[j].status \in {"completed", "failed"})

(***************************************************************************)
(* C6.  Once the stored status of a job is completed or failed, no step    *)
(* changes its row (status, progress, error message, completion time) or   *)
(* the findings, recommendations and dependencies stored for it; a         *)
(* completed job is never set to failed.                                   *)
(***************************************************************************)
C6_TerminalIsFinal ==
    [][\A j \in Recorded :
          analyses[j].status \in {"completed", "failed"} =>
              /\ analyses'[j] = analyses[j]
              /\ JobRows(findings', j) = JobRows(findings, j)
              /\ JobRows(recommendations', j) = JobRows(recommendations, j)
              /\ JobRows(dependencies', j) = JobRows(dependencies, j)]_vars

\* the commit that records completion raised for one job, which was marked
\* failed (the completed status assigned before that commit never reached the
\* table), and another job ran to completion and stored findings
C6_Witness ==
    \E j \in Recorded, k \in Recorded :
        /\ j # k
        /\ analyses[j].status = "failed"
        /\ fatalLog[j] = <<"completion commit">>
        /\ pc[j] = "done"
        /\ analyses[k].status = "completed"
        /\ JobRows(findings, k) # <<>>

(***************************************************************************)
(* C7.  A storage call raising while the results of a file are persisted   *)
(* is fatal to the job: no further file of the job is processed after it,  *)
(* and the job ends failed with the error message captured.                *)
(***************************************************************************)
C7_StorageErrorIsFatal ==
    \A j \in Recorded :
        \A i \in Visited(j) :
            faultLog[j][i].at \in {"add", "query"} =>
                /\ i = Len(faultLog[j])
                /\ TaskEnded(j) =>
                      /\ analyses[j].status = "failed"
                      /\ analyses[j].error_message # NULL

(***************************************************************************)
(* C8 as stated.  Every change of a job's status goes to the next state    *)
(* of pending, processing, scanning_code, analyzing_dependencies,          *)
(* generating_recommendations, completed, or to failed, and the progress   *)
(* stored on entering scanning_code, analyzing_dependencies,               *)
(* generating_recommendations and completed is 25, 50, 75 and 100.         *)
(***************************************************************************)
StatusChain ==
    <<"pending", "processing", "scanning_code", "analyzing_dependencies",
      "generating_recommendations", "completed">>

ChainProgress ==
    [st \in {"scanning_code", "analyzing_dependencies",
             "generating_recommendations", "completed"} |->
        CASE st = "scanning_code" -> 25
          [] st = "analyzing_dependencies" -> 50
          [] st = "generating_recommendations" -> 75
          [] OTHER -> 100]

C8_StatusFollowsChain ==
    [][\A j \in Recorded :
          analyses'[j].status # analyses[j].status =>
              \/ analyses'[j].status = "failed"
              \/ \E n \in 1..(Len(StatusChain) - 1) :
                    /\ analyses[j].status = StatusChain[n]
                    /\ analyses'[j].status = StatusChain[n + 1]
                    /\ analyses'[j].status \in DOMAIN ChainProgress =>
                          analyses'[j].progress = ChainProgress[analyses'[j].status]]_vars

(***************************************************************************)
(* C8 as amended.  A job is recorded with status processing and progress   *)
(* 0; every change of its status goes from processing to completed, where  *)
(* the stored progress is 100, or to failed.  While the status is          *)
(* processing the stored progress is 0 or 25.                              *)
(***************************************************************************)
C8_StatusSteps ==
    [][/\ \A j \in Recorded' \ Recorded :
             /\ analyses'[j].status = "processing"
             /\ analyses'[j].progress = 0
       /\ \A j \in Recorded :
             /\ analyses'[j].status # analyses[j].status =>
                   \/ analyses'[j].status = "failed"
                   \/ /\ analyses[j].status = "processing"
                      /\ analyses'[j].status = "completed"
                      /\ analyses'[j].progress = 100
             /\ analyses'[j].status = "processing" =>
                   analyses'[j].progress \in {0, 25}]_vars

\* a job that went from processing to completed
C8_Witness ==
    \E j \in Recorded :
        /\ analyses[j].status = "completed"
        /\ analyses[j].progress = 100
        /\ pc[j] = "done"

(***************************************************************************)
(* C9.  If exactly one analyzer raises for a file and it is the dependency *)
(* mapper or the cloud-readiness analyzer, the scanner's output for that   *)
(* file is still aggregated: in a job that completed, the scanner's        *)
(* findings and recommendations for the file are persisted.                *)
(***************************************************************************)
C9_OtherAnalyzersStillAggregated ==
    \A j \in Recorded :
        analyses[j].status = "completed" =>
            \A i \in Visited(j) :
                faultLog[j][i].at \in {"dependency", "cloud"} =>
                    /\ ScannerFindingsPersisted(j, i)
                    /\ TitlesPersisted(j, ScannerOutput(j, i).recommendations)

(***************************************************************************)
(* C10.  For every file processed without error, the persisted results of  *)
(* a completed job contain every finding and recommendation of the         *)
(* scanner, every recommendation of the dependency mapper and every        *)
(* recommendation of the cloud-readiness analyzer.                         *)
(***************************************************************************)
C10_AllAnalyzerOutputsPersisted ==
    \A j \in Recorded :
        analyses[j].status = "completed" =>
            \A i \in Visited(j) :
                Unfaulted(j, i) =>
                    /\ ScannerFindingsPersisted(j, i)
                    /\ TitlesPersisted(j, ScannerOutput(j, i).recommendations)
                    /\ TitlesPersisted(j, DependencyOutput(j, i).recommendations)
                    /\ TitlesPersisted(j, CloudOutput(j, i).recommendations)

(***************************************************************************)
(* C11.  For every import statement of a file processed without error that *)
(* matches a known-bad rule, whatever the language of the file, a          *)
(* dependency row is persisted for the job: with status outdated when the  *)
(* statement names spring and 1.5, with status vulnerable when it names    *)
(* log4j.                                                                  *)
(***************************************************************************)
\* the import statements the syntax tree of file i of job j holds
ImportStatements(j, i) == FileAt(j, i).content.tree.imports

DependencyPersisted(j, status) ==
    \E r \in DOMAIN dependencies :
        /\ dependencies[r].analysis_id = j
        /\ dependencies[r].status = status

C11_KnownBadImportsPersisted ==
    \A j \in Recorded :
        analyses[j].status = "completed" =>
            \A i \in Visited(j) :
                Unfaulted(j, i) =>
                    \A k \in DOMAIN ImportStatements(j, i) :
                        /\ IsOutdated(ImportStatements(j, i)[k]) =>
                              DependencyPersisted(j, "outdated")
                        /\ IsVulnerable(ImportStatements(j, i)[k]) =>
                              DependencyPersisted(j, "vulnerable")

(***************************************************************************)
(* C12.  When the parser raises on a file of a supported language,         *)
(* parse_code returns the degraded record (no functions, classes or        *)
(* imports, complexity 0, the error annotation), the file is still marked  *)
(* processed, and no finding is persisted for the file, whatever the       *)
(* length of the content and the text of the exception.                    *)
(***************************************************************************)
\* file i of job j is of a supported language and the parser raises on it
ParseRaises(j, i) ==
    /\ detect_language(FileAt(j, i).filename) # "unknown"
    /\ FileAt(j, i).content.error # <<>>

CodeInfo(j, i) == parse_code(FileAt(j, i).filename, FileAt(j, i).content)

\* a row of the job's files with this name has been marked processed
MarkedProcessed(j, filename) ==
    \E r \in DOMAIN analysis_files :
        /\ analysis_files[r].analysis_id = j
        /\ analysis_files[r].filename = filename
        /\ analysis_files[r].upload_status = "processed"

C12_ParseErrorYieldsNoFindings ==
    \A j \in Recorded :
        analyses[j].status = "completed" =>
            \A i \in Visited(j) :
                (Unfaulted(j, i) /\ ParseRaises(j, i)) =>
                    /\ CodeInfo(j, i).functions = <<>>
                    /\ CodeInfo(j, i).classes = <<>>
                    /\ CodeInfo(j, i).imports = <<>>
                    /\ CodeInfo(j, i).complexity = 0
                    /\ CodeInfo(j, i).error = FileAt(j, i).content.error
                    /\ MarkedProcessed(j, FileAt(j, i).filename)
                    /\ \A r \in DOMAIN findings :
                          ~(/\ findings[r].analysis_id = j
                            /\ findings[r].location = FileAt(j, i).filename)

(***************************************************************************)
(* C13.  Under any interleaving of the steps of concurrently running jobs, *)
(* jobs are isolated: every finding, recommendation and dependency row     *)
(* stored under a job id is one that analyze_code builds from a file of    *)
(* that job, a file row of a job is marked processed only for a file that  *)
(* job processed, and a step of one job, failing or not, leaves the row,   *)
(* the results and the stored rows of every other job unchanged.           *)
(***************************************************************************)
RowsFromOwnFiles(j) ==
    /\ \A r \in DOMAIN findings :
          findings[r].analysis_id = j =>
              \E i \in Visited(j) :
                  LET own == FindingObjects(j, FileAt(j, i), ScannerOutput(j, i))
                  IN  \E k \in DOMAIN own : findings[r] = own[k]
    /\ \A r \in DOMAIN recommendations :
          recommendations[r].analysis_id = j =>
              \E i \in Visited(j) :
                  LET own == RecommendationObjects(j, ScannerOutput(j, i))
                  IN  \E k \in DOMAIN own : recommendations[r] = own[k]
    /\ \A r \in DOMAIN dependencies :
          dependencies[r].analysis_id = j =>
              \E i \in Visited(j) :
                  LET own == DependencyObjects(j, DependencyOutput(j, i))
                  IN  \E k \in DOMAIN own : dependencies[r] = own[k]
    /\ \A r \in DOMAIN analysis_files :
          (/\ analysis_files[r].analysis_id = j
           /\ analysis_files[r].upload_status = "processed") =>
              \E i \in Visited(j) :
                  /\ Unfaulted(j, i)
                  /\ FileAt(j, i).filename = analysis_files[r].filename

\* the step is not one of job j
NotStepOf(j) == pc'[j] = pc[j] /\ pos'[j] = pos[j]

UntouchedByOthers(j) ==
    NotStepOf(j) =>
        /\ j \in Recorded => (j \in Recorded' /\ analyses'[j] = analyses[j])
        /\ j \notin Recorded => j \notin Recorded'
        /\ JobRows(findings', j) = JobRows(findings, j)
        /\ JobRows(recommendations', j) = JobRows(recommendations, j)
        /\ JobRows(dependencies', j) = JobRows(dependencies, j)
        /\ JobRows(analysis_files', j) = JobRows(analysis_files, j)
        /\ results'[j] = results[j]
        /\ session'[j] = session[j]

C13_JobsIsolated ==
    /\ [](\A j \in JobIds : RowsFromOwnFiles(j))
    /\ [][\A j \in JobIds : UntouchedByOthers(j)]_vars

\* two jobs uploaded a file of the same name; one failed at the commit of its
\* results and its file row is still as uploaded, the other completed with
\* findings stored and its file row marked processed
C13_Witness ==
    \E j \in Recorded, k \in Recorded :
        /\ j # k
        /\ analyses[j].status = "failed"
        /\ fatalLog[j] = <<"results commit">>
        /\ analyses[k].status = "completed"
        /\ JobRows(findings, k) # <<>>
        /\ \E a \in DOMAIN analysis_files, b \in DOMAIN analysis_files :
              /\ analysis_files[a].analysis_id = j
              /\ analysis_files[b].analysis_id = k
              /\ analysis_files[a].filename = analysis_files[b].filename
              /\ analysis_files[a].upload_status = "uploaded"
              /\ analysis_files[b].upload_status = "processed"

(***************************************************************************)
(* C14.  For every uploaded file whose extension, lower-cased, is not a    *)
(* key of the language map, detect_language returns unknown and parse_code *)
(* returns language unknown, complexity 0, no functions, classes or        *)
(* imports, no error annotation, and lines_of_code equal to the number of  *)
(* newline-separated lines of the content: one more than its newlines, 1   *)
(* for the empty content.                                                  *)
(***************************************************************************)
C14_UnknownExtensionRecord ==
    \A j \in JobIds :
        \A i \in DOMAIN processed_files[j] :
            LowerExt(FileAt(j, i).filename.ext) \notin DOMAIN language_map =>
                /\ detect_language(FileAt(j, i).filename) = "unknown"
                /\ CodeInfo(j, i) =
                      [language |-> "unknown", functions |-> <<>>, classes |-> <<>>,
                       imports |-> <<>>, complexity |-> 0,
                       lines_of_code |-> FileAt(j, i).content.newlines + 1,
                       error |-> <<>>]

\* a job whose loop has parsed an empty file without extension and a file of
\* five lines with an extension the map does not have
C14_Witness ==
    \E j \in Recorded :
        \E i \in Visited(j), k \in Visited(j) :
            /\ Unfaulted(j, i)
            /\ FileAt(j, i).filename.ext = ""
            /\ FileAt(j, i).content.newlines = 0
            /\ CodeInfo(j, i).language = "unknown"
            /\ CodeInfo(j, i).lines_of_code = 1
            /\ Unfaulted(j, k)
            /\ FileAt(j, k).filename.ext = ".xyz"
            /\ CodeInfo(j, k).language = "unknown"
            /\ CodeInfo(j, k).lines_of_code = 5

(***************************************************************************)
(* C15.  When a job has completed, the row of every file that was          *)
(* processed without error has upload status processed and a processing    *)
(* timestamp, also when two files of the job have the same filename.       *)
(***************************************************************************)
\* the row create_analysis stored for file i of job j: the rows of a job are
\* added in the order of processed_files
FileRowAt(j, i) == JobRows(analysis_files, j)[i]

C15_ProcessedFilesMarked ==
    \A j \in Recorded :
        analyses[j].status = "completed" =>
            \A i \in Visited(j) :
                Unfaulted(j, i) =>
                    /\ FileRowAt(j, i).filename = FileAt(j, i).filename
                    /\ FileRowAt(j, i).upload_status = "processed"
                    /\ FileRowAt(j, i).processed_at # NULL

(***************************************************************************)
(* C16.  A file that was skipped because its processing raised leaves no   *)
(* trace, whichever step raised: in a completed job the findings,          *)
(* recommendations and dependencies that are persisted, and those of the   *)
(* returned summary, are as many as the files processed without error      *)
(* yield.                                                                  *)
(***************************************************************************)
\* the number of db.add calls analyze_code makes for file i of job j when
\* nothing raises, per table
AddsFor(j, i) ==
    [findings |-> Len(FindingObjects(j, FileAt(j, i), ScannerOutput(j, i))),
     recommendations |-> Len(RecommendationObjects(j, ScannerOutput(j, i))),
     dependencies |-> Len(DependencyObjects(j, DependencyOutput(j, i)))]

\* the same, summed over the files of job j processed without error
AddsOfUnfaulted(j, table) ==
    LET upto[n \in 0..Len(faultLog[j])] ==
            IF n = 0 THEN 0
            ELSE upto[n - 1] + (IF Unfaulted(j, n) THEN AddsFor(j, n)[table] ELSE 0)
    IN  upto[Len(faultLog[j])]

C16_SkippedFileLeavesNoTrace ==
    \A j \in Recorded :
        (analyses[j].status = "completed" /\ results[j] # <<>>) =>
            /\ Len(JobRows(findings, j)) = AddsOfUnfaulted(j, "findings")
            /\ Len(JobRows(recommendations, j)) = AddsOfUnfaulted(j, "recommendations")
            /\ Len(JobRows(dependencies, j)) = AddsOfUnfaulted(j, "dependencies")
            /\ Len(results[j][1].findings) = AddsOfUnfaulted(j, "findings")
            /\ Len(results[j][1].recommendations) = AddsOfUnfaulted(j, "recommendations")
            /\ Len(results[j][1].dependencies) = AddsOfUnfaulted(j, "dependencies")

=============================================================================
